---- MODULE Spec2Model ----
(***************************************************************************)
(* Model of the log store of logdb/logdb.go: the event and transfer        *)
(* tables, the config row holding the last indexed block number, the       *)
(* BlockBatch accumulator with its Commit transaction, and the filter      *)
(* queries FilterEvents / FilterTransfers.                                 *)
(***************************************************************************)
EXTENDS Integers, Sequences, FiniteSets, TLC

VARIABLES
    eventTable,     \* rows of table "event"
    transferTable,  \* rows of table "transfer"
    config,         \* rows of table "config"
    batches,        \* the BlockBatch the caller holds: <<>> or <<bb>>
    inserted,       \* how many Insert calls the caller has made on that batch
    res,            \* the last call: its name, inputs, outcome, store state before it
    lastCommitted,  \* history: height of the most recent successful Commit with height > 0
    closed,         \* whether LogDB.Close has been called
    conn,           \* the callers holding an open connection of the pool
    procs,          \* the Commit calls running concurrently, one per writer
    replayed        \* history: <<H, M>> when the latest successful commits were those
                    \* of the canonical blocks H..M in order, else <<>>

vars == <<eventTable, transferTable, config, batches, inserted, res, lastCommitted,
          closed, conn, procs, replayed>>

\* ------------------------------------------------------------------ bounds
MaxHeight == 2
\* Insert calls made on one batch by a caller that chooses their inputs.
MaxInserts == 3

\* ------------------------------------------------------------------ values
\* A Go pointer / optional value: nil or a reference to one value.
Nil == <<>>
Ptr(x) == <<x>>
IsNil(p) == p = <<>>
Deref(p) == p[1]

NULL == "NULL"

configBlockNumKey == "blockNum"

Heights == 0..MaxHeight

\* block.Header as read by the store: Number(), ID(), Timestamp().  Every
\* height has the block of the canonical chain (fork 0) and a competing block
\* (fork 1), stamped one second later.
Forks == {0, 1}
Header(n, f) == [number |-> n, id |-> <<n, f>>, timestamp |-> n + 1 + f]
Headers == {Header(n, f) : n \in Heights, f \in Forks}
CanonicalHeaders == {Header(n, 0) : n \in Heights}

\* tx.Event and tx.Transfer payloads produced by clause execution.
TxEvent(a, ts) == [address |-> a, topics |-> ts, data |-> "d"]
TxTransfer(s, r, v) == [sender |-> s, recipient |-> r, amount |-> v]

\* The outputs of one clause of one transaction, as handed to Insert.
Output(id, origin, ci, evs, trs) ==
    [txID |-> id, txOrigin |-> origin, clauseIndex |-> ci, events |-> evs, transfers |-> trs]

\* The clause outputs the chain pipeline gets from executing a block, in
\* execution order: the block's content is fixed by its header.
BlockOutputs(header) ==
    IF header.id[2] = 0
    THEN << Output("X1", "A", 0, <<TxEvent("A", <<"T1">>)>>, <<TxTransfer("A", "B", 1)>>),
            Output("X2", "B", 1, <<TxEvent("B", <<"T1", "T2">>)>>, <<TxTransfer("B", "A", 2)>>) >>
    ELSE << Output("X3", "B", 0, <<TxEvent("B", <<"T2">>)>>, <<TxTransfer("B", "B", 3)>>) >>

\* ------------------------------------------------------------- record model
newEvent(header, index, txID, txOrigin, clauseIndex, txEvent) ==
    [ BlockNumber |-> header.number,
      Index       |-> index,
      BlockID     |-> header.id,
      BlockTime   |-> header.timestamp,
      TxID        |-> txID,
      TxOrigin    |-> txOrigin,
      ClauseIndex |-> clauseIndex,
      Address     |-> txEvent.address,
      Topics      |-> [i \in 1..5 |-> IF i <= Len(txEvent.topics)
                                       THEN Ptr(txEvent.topics[i]) ELSE Nil],
      Data        |-> txEvent.data ]

newTransfer(header, index, txID, txOrigin, clauseIndex, txTransfer) ==
    [ BlockNumber |-> header.number,
      Index       |-> index,
      BlockID     |-> header.id,
      BlockTime   |-> header.timestamp,
      TxID        |-> txID,
      TxOrigin    |-> txOrigin,
      ClauseIndex |-> clauseIndex,
      Sender      |-> txTransfer.sender,
      Recipient   |-> txTransfer.recipient,
      Amount      |-> txTransfer.amount ]

\* A nil topic is bound as NULL, a present one as its bytes.
topicValueZeroHash(topic) == IF IsNil(topic) THEN "T0" ELSE Deref(topic)
topicValue(topic) == IF IsNil(topic) THEN NULL ELSE Deref(topic)

\* big.Int.Bytes: the big-endian bytes of the absolute value, none for 0;
\* big.Int.SetBytes: the unsigned value of big-endian bytes.
RECURSIVE BigIntBytes(_), SetBytes(_)
BigIntBytes(x) ==
    LET abs == IF x < 0 THEN -x ELSE x IN
    IF abs = 0 THEN <<>> ELSE Append(BigIntBytes(abs \div 256), abs % 256)
SetBytes(b) ==
    IF b = <<>> THEN 0 ELSE SetBytes(SubSeq(b, 1, Len(b) - 1)) * 256 + b[Len(b)]

\* The values bound to the columns of one INSERT INTO event.
EventRow(event) ==
    [ blockNumber |-> event.BlockNumber,
      eventIndex  |-> event.Index,
      blockID     |-> event.BlockID,
      blockTime   |-> event.BlockTime,
      txID        |-> event.TxID,
      txOrigin    |-> event.TxOrigin,
      clauseIndex |-> event.ClauseIndex,
      address     |-> event.Address,
      topic0      |-> topicValue(event.Topics[1]),
      topic1      |-> topicValue(event.Topics[2]),
      topic2      |-> topicValue(event.Topics[3]),
      topic3      |-> topicValue(event.Topics[4]),
      topic4      |-> topicValue(event.Topics[5]),
      data        |-> event.Data ]

\* The values bound to the columns of one INSERT INTO transfer.
TransferRow(transfer) ==
    [ blockNumber   |-> transfer.BlockNumber,
      transferIndex |-> transfer.Index,
      blockID       |-> transfer.BlockID,
      blockTime     |-> transfer.BlockTime,
      txID          |-> transfer.TxID,
      txOrigin      |-> transfer.TxOrigin,
      clauseIndex   |-> transfer.ClauseIndex,
      sender        |-> transfer.Sender,
      recipient     |-> transfer.Recipient,
      amount        |-> BigIntBytes(transfer.Amount) ]

\* binary.BigEndian.PutUint32 / Uint32 on the 4-byte marker value.
PutUint32(n) ==
    << (n \div 16777216) % 256, (n \div 65536) % 256, (n \div 256) % 256, n % 256 >>
Uint32(b) == ((b[1] * 256 + b[2]) * 256 + b[3]) * 256 + b[4]

\* ------------------------------------------------------------------ tables
\* The persisted state: both record tables and the config table.
Store == [event |-> eventTable, transfer |-> transferTable, config |-> config]

\* Both record tables are keyed by (block number, sequence index), the config
\* table by its key column.
EventKey(row) == <<row.blockNumber, row.eventIndex>>
TransferKey(row) == <<row.blockNumber, row.transferIndex>>

\* DELETE from <table> where blockNumber >= ?
DeleteFromGT(table, number) == {row \in table : ~(row.blockNumber > number)}
DeleteFrom(table, number) == {row \in table : ~(row.blockNumber >= number)}

\* INSERT OR REPLACE INTO event(...) VALUES (...)
InsertOrReplaceEvent(table, row) ==
    {old \in table : EventKey(old) # EventKey(row)} \cup {row}

\* INSERT OR REPLACE INTO transfer(...) VALUES (...)
InsertOrReplaceTransfer(table, row) ==
    {old \in table : TransferKey(old) # TransferKey(row)} \cup {row}

\* INSERT OR REPLACE INTO config(key, value) VALUES(?,?)
InsertOrReplaceConfig(table, key, value) ==
    {old \in table : old.key # key} \cup {[key |-> key, value |-> value]}

\* ------------------------------------------------------------- BlockBatch
NewBatch(header) == [header |-> header, events |-> <<>>, transfers |-> <<>>]

\* if bb.header.Number() > 0: the guard of truncation and marker update.
AboveGenesisOrAt(bb) == bb.header.number >= 0
AboveGenesis(bb) == bb.header.number > 0

\* The statements Commit's closure executes on the transaction, in order.
\* checked: whether the closure looks at the statement's error.
TxStatementsTruncatingEvents(bb) ==
    (IF AboveGenesis(bb)
        THEN << [kind |-> "deleteEvent", checked |-> TRUE],
                [kind |-> "marker", checked |-> FALSE] >>
        ELSE << >>)
    \o [i \in 1..Len(bb.events) |-> [kind |-> "event", checked |-> TRUE, i |-> i]]
    \o [i \in 1..Len(bb.transfers) |-> [kind |-> "transfer", checked |-> TRUE, i |-> i]]
TxStatements(bb) ==
    (IF AboveGenesis(bb)
        THEN << [kind |-> "deleteEvent", checked |-> TRUE],
                [kind |-> "deleteTransfer", checked |-> TRUE],
                [kind |-> "marker", checked |-> FALSE] >>
        ELSE << >>)
    \o [i \in 1..Len(bb.events) |-> [kind |-> "event", checked |-> TRUE, i |-> i]]
    \o [i \in 1..Len(bb.transfers) |-> [kind |-> "transfer", checked |-> TRUE, i |-> i]]

\* The effect of one statement that succeeds, on the transaction's view.
ExecStatement(db, bb, st) ==
    CASE st.kind = "deleteEvent" ->
            [db EXCEPT !.event = DeleteFrom(db.event, bb.header.number)]
      [] st.kind = "deleteTransfer" ->
            [db EXCEPT !.transfer = DeleteFrom(db.transfer, bb.header.number)]
      [] st.kind = "marker" ->
            [db EXCEPT !.config = InsertOrReplaceConfig(db.config, configBlockNumKey,
                                                        PutUint32(bb.header.number))]
      [] st.kind = "event" ->
            [db EXCEPT !.event = InsertOrReplaceEvent(db.event, EventRow(bb.events[st.i]))]
      [] st.kind = "transfer" ->
            [db EXCEPT !.transfer =
                InsertOrReplaceTransfer(db.transfer, TransferRow(bb.transfers[st.i]))]

\* The closure passed to execInTx, from statement k on; the statement numbered
\* failing returns an error and has no effect.  A checked error ends the
\* closure; an unchecked one is dropped and the closure goes on.
RECURSIVE CommitProc(_, _, _, _)
CommitProc(db, bb, k, failing) ==
    LET sts == TxStatements(bb) IN
    IF k > Len(sts) THEN [err |-> FALSE, db |-> db]
    ELSE IF k = failing
         THEN IF sts[k].checked THEN [err |-> TRUE, db |-> db]
              ELSE CommitProc(db, bb, k + 1, failing)
         ELSE CommitProc(ExecStatement(db, bb, sts[k]), bb, k + 1, failing)

\* Where a Commit can fail: nowhere, at Begin, at one statement, at tx.Commit.
NoFailure == [at |-> "none", k |-> 0]
FailurePoints(bb) ==
    {NoFailure, [at |-> "begin", k |-> 0], [at |-> "commit", k |-> 0]}
    \cup {[at |-> "statement", k |-> k] : k \in 1..Len(TxStatements(bb))}

\* Every failure point of any batch the pipeline can build: two deletes, the
\* marker write and one insert per record of the longest block.
MaxStatements == 3 + 2 * Len(BlockOutputs(Header(0, 0)))
AllFailurePoints ==
    {NoFailure, [at |-> "begin", k |-> 0], [at |-> "commit", k |-> 0]}
    \cup {[at |-> "statement", k |-> k] : k \in 1..MaxStatements}

\* execInTx: Begin, run the closure, Rollback on its error, else Commit.
\* Returns the error flag and the persisted state.
execInTx(db, bb, fail) ==
    IF fail.at = "begin" THEN [err |-> TRUE, db |-> db]
    ELSE LET r == CommitProc(db, bb, 1, IF fail.at = "statement" THEN fail.k ELSE 0) IN
         IF r.err THEN [err |-> TRUE, db |-> db]
         ELSE IF fail.at = "commit" THEN [err |-> TRUE, db |-> db]
         ELSE [err |-> FALSE, db |-> r.db]

\* ------------------------------------------------------------ SQL queries
\* A statement is its WHERE clause as the sequence of tokens the code
\* concatenates, its ORDER BY terms, whether it ends in "limit ?, ?", and the
\* arguments bound to its placeholders in order.
ONE == [t |-> "1"]
AND == [t |-> "AND"]
OR == [t |-> "OR"]
LP == [t |-> "("]
RP == [t |-> ")"]
\* column op ?
Cmp(col, op) == [t |-> "cmp", col |-> col, op |-> op]

Part(toks, args) == [toks |-> toks, args |-> args]
NoPart == Part(<<>>, <<>>)
Cat(a, b) == Part(a.toks \o b.toks, a.args \o b.args)

RECURSIVE CatAll(_)
CatAll(parts) == IF parts = <<>> THEN NoPart ELSE Cat(Head(parts), CatAll(Tail(parts)))

\* A Go slice: nil or a (possibly empty) sequence of elements.
NilSlice == [isNil |-> TRUE, elems |-> <<>>]
Slice(elems) == [isNil |-> FALSE, elems |-> elems]

\* Range: the lower bound always, the upper bound only when To >= From.
RangePartStrictTo(range) ==
    IF IsNil(range) THEN NoPart
    ELSE LET r == Deref(range)
             condition == IF r.Unit = "Time" THEN "blockTime" ELSE "blockNumber"
         IN Cat(Part(<<AND, Cmp(condition, ">=")>>, <<r.From>>),
                IF r.To > r.From THEN Part(<<AND, Cmp(condition, "<=")>>, <<r.To>>)
                ELSE NoPart)
RangePart(range) ==
    IF IsNil(range) THEN NoPart
    ELSE LET r == Deref(range)
             condition == IF r.Unit = "Time" THEN "blockTime" ELSE "blockNumber"
         IN Cat(Part(<<AND, Cmp(condition, ">=")>>, <<r.From>>),
                IF r.To >= r.From THEN Part(<<AND, Cmp(condition, "<=")>>, <<r.To>>)
                ELSE NoPart)

\* fmt.Sprintf(" AND topic%v = ?", j) for j = 0..4
TopicColumn(j) == <<"topic0", "topic1", "topic2", "topic3", "topic4">>[j + 1]

\* One optional equality constraint of a criteria group.
EqPart(col, ptr) ==
    IF IsNil(ptr) THEN NoPart ELSE Part(<<AND, Cmp(col, "=")>>, <<Deref(ptr)>>)

\* The i-th (from 0) criteria group of an EventFilter.
EventCriteriaPart(i, criteria) ==
    CatAll(<< Part(IF i = 0 THEN <<AND, LP, ONE>> ELSE <<OR, LP, ONE>>, <<>>),
              EqPart("address", criteria.Address),
              CatAll([j \in 1..5 |-> EqPart(TopicColumn(j - 1), criteria.Topics[j])]),
              Part(<<RP>>, <<>>) >>)

\* The i-th (from 0) of length criteria groups of a TransferFilter.
TransferCriteriaPartUngrouped(i, length, criteria) ==
    CatAll(<< Part(IF i = 0 THEN <<AND, LP, ONE>> ELSE <<OR, LP, ONE>>, <<>>),
              EqPart("txOrigin", criteria.TxOrigin),
              EqPart("sender", criteria.Sender),
              EqPart("recipient", criteria.Recipient),
              Part(<<RP>>, <<>>) >>)
TransferCriteriaPart(i, length, criteria) ==
    CatAll(<< Part(IF i = 0 THEN <<AND, LP, LP, ONE>> ELSE <<OR, LP, ONE>>, <<>>),
              EqPart("txOrigin", criteria.TxOrigin),
              EqPart("sender", criteria.Sender),
              EqPart("recipient", criteria.Recipient),
              Part(IF i = length - 1 THEN <<RP, RP>> ELSE <<RP>>, <<>>) >>)

\* ORDER BY blockNumber <dir>, <index column> <dir>
OrderByAscending(order, indexColumn) ==
    << [col |-> "blockNumber", desc |-> FALSE], [col |-> indexColumn, desc |-> FALSE] >>
OrderBy(order, indexColumn) ==
    IF order = "DESC"
    THEN << [col |-> "blockNumber", desc |-> TRUE], [col |-> indexColumn, desc |-> TRUE] >>
    ELSE << [col |-> "blockNumber", desc |-> FALSE], [col |-> indexColumn, desc |-> FALSE] >>

\* " limit ?, ? " with the arguments Offset, Limit
LimitArgsSwapped(options) ==
    IF IsNil(options) THEN <<>> ELSE <<Deref(options).Limit, Deref(options).Offset>>
LimitArgs(options) ==
    IF IsNil(options) THEN <<>> ELSE <<Deref(options).Offset, Deref(options).Limit>>

\* The statement FilterEvents builds for a non-nil filter.
EventStmtEmptyListMatchesNone(filter) ==
    LET where == CatAll(<< Part(<<ONE>>, <<>>),
                           RangePart(filter.Range),
                           IF ~filter.CriteriaSet.isNil /\ filter.CriteriaSet.elems = <<>>
                           THEN Part(<<AND, Cmp("blockNumber", "<=")>>, <<-1>>)
                           ELSE NoPart,
                           CatAll([i \in 1..Len(filter.CriteriaSet.elems) |->
                                     EventCriteriaPart(i - 1, filter.CriteriaSet.elems[i])]) >>)
    IN [ where   |-> where.toks,
         orderBy |-> OrderBy(filter.Order, "eventIndex"),
         limit   |-> ~IsNil(filter.Options),
         args    |-> where.args \o LimitArgs(filter.Options) ]
EventStmt(filter) ==
    LET where == CatAll(<< Part(<<ONE>>, <<>>),
                           RangePart(filter.Range),
                           CatAll([i \in 1..Len(filter.CriteriaSet.elems) |->
                                     EventCriteriaPart(i - 1, filter.CriteriaSet.elems[i])]) >>)
    IN [ where   |-> where.toks,
         orderBy |-> OrderBy(filter.Order, "eventIndex"),
         limit   |-> ~IsNil(filter.Options),
         args    |-> where.args \o LimitArgs(filter.Options) ]

\* The statement FilterTransfers builds for a non-nil filter.
TransferStmt(filter) ==
    LET length == Len(filter.CriteriaSet.elems)
        where == CatAll(<< Part(<<ONE>>, <<>>),
                           RangePart(filter.Range),
                           EqPart("txID", filter.TxID),
                           CatAll([i \in 1..length |->
                                     TransferCriteriaPart(i - 1, length,
                                                          filter.CriteriaSet.elems[i])]) >>)
    IN [ where   |-> where.toks,
         orderBy |-> OrderBy(filter.Order, "transferIndex"),
         limit   |-> ~IsNil(filter.Options),
         args    |-> where.args \o LimitArgs(filter.Options) ]

\* "SELECT * FROM <table>": no WHERE, no ORDER BY, no limit.
SelectAll == [where |-> <<ONE>>, orderBy |-> <<>>, limit |-> FALSE, args |-> <<>>]

\* ------------------------------------------------------- query execution
\* The WHERE tokens with the k-th placeholder replaced by the k-th argument.
Bind(toks, args) ==
    [p \in 1..Len(toks) |->
        IF toks[p].t = "cmp"
        THEN [t |-> "cmp", col |-> toks[p].col, op |-> toks[p].op,
              val |-> args[Cardinality({q \in 1..p : toks[q].t = "cmp"})]]
        ELSE toks[p]]

\* One comparison on a row.  A NULL column makes the comparison NULL, which
\* AND / OR / WHERE treat like false (the statements contain no NOT).
Holds(cmp, row) ==
    LET x == row[cmp.col] IN
    CASE cmp.op = ">=" -> x >= cmp.val
      [] cmp.op = "<=" -> x <= cmp.val
      [] cmp.op = "="  -> x # NULL /\ x = cmp.val

\* The WHERE expression is evaluated with SQL's precedence: parentheses bind
\* tightest, then AND, then OR.  Each operator returns the value of the
\* expression starting at token p and the position after it.
RECURSIVE ParseExpr(_, _, _), ExprRest(_, _, _, _), ParseTerm(_, _, _), TermRest(_, _, _, _),
          ParseFactor(_, _, _)
ParseFactor(toks, p, row) ==
    IF toks[p].t = "(" THEN LET e == ParseExpr(toks, p + 1, row)
                            IN [val |-> e.val, pos |-> e.pos + 1]
    ELSE IF toks[p].t = "1" THEN [val |-> TRUE, pos |-> p + 1]
    ELSE [val |-> Holds(toks[p], row), pos |-> p + 1]
TermRest(toks, p, row, acc) ==
    IF p <= Len(toks) /\ toks[p].t = "AND"
    THEN LET f == ParseFactor(toks, p + 1, row) IN TermRest(toks, f.pos, row, acc /\ f.val)
    ELSE [val |-> acc, pos |-> p]
ParseTerm(toks, p, row) ==
    LET f == ParseFactor(toks, p, row) IN TermRest(toks, f.pos, row, f.val)
ExprRest(toks, p, row, acc) ==
    IF p <= Len(toks) /\ toks[p].t = "OR"
    THEN LET t == ParseTerm(toks, p + 1, row) IN ExprRest(toks, t.pos, row, acc \/ t.val)
    ELSE [val |-> acc, pos |-> p]
ParseExpr(toks, p, row) ==
    LET t == ParseTerm(toks, p, row) IN ExprRest(toks, t.pos, row, t.val)

WhereHolds(toks, row) == ParseExpr(toks, 1, row).val

\* r1 sorts strictly before r2 under the ORDER BY terms.
RECURSIVE Before(_, _, _)
Before(r1, r2, orderBy) ==
    IF orderBy = <<>> THEN FALSE
    ELSE LET o == Head(orderBy) IN
         IF r1[o.col] = r2[o.col] THEN Before(r1, r2, Tail(orderBy))
         ELSE IF o.desc THEN r1[o.col] > r2[o.col] ELSE r1[o.col] < r2[o.col]

RECURSIVE Sorted(_, _)
Sorted(rows, orderBy) ==
    IF rows = {} THEN <<>>
    ELSE LET first == CHOOSE r \in rows : \A o \in rows : ~Before(o, r, orderBy)
         IN <<first>> \o Sorted(rows \ {first}, orderBy)

\* The order in which a table is scanned when the statement gives none: the
\* tables are keyed by (block number, sequence index).
NativeOrder(indexColumn) ==
    << [col |-> "blockNumber", desc |-> FALSE], [col |-> indexColumn, desc |-> FALSE] >>

Min(a, b) == IF a <= b THEN a ELSE b

\* The rows a statement produces, in order: WHERE, ORDER BY, LIMIT offset, count.
Rows(table, stmt, indexColumn) ==
    LET n == Len(stmt.args)
        whereArgs == IF stmt.limit THEN SubSeq(stmt.args, 1, n - 2) ELSE stmt.args
        toks == Bind(stmt.where, whereArgs)
        matching == {row \in table : WhereHolds(toks, row)}
        ordered == Sorted(matching, stmt.orderBy \o NativeOrder(indexColumn))
    IN IF stmt.limit
       THEN SubSeq(ordered, stmt.args[n - 1] + 1, Min(stmt.args[n - 1] + stmt.args[n], Len(ordered)))
       ELSE ordered

\* rows.Scan and the construction of the record in queryEvents.
ScanEvent(row) ==
    LET topics == <<row.topic0, row.topic1, row.topic2, row.topic3, row.topic4>> IN
    [ BlockNumber |-> row.blockNumber,
      Index       |-> row.eventIndex,
      BlockID     |-> row.blockID,
      BlockTime   |-> row.blockTime,
      TxID        |-> row.txID,
      TxOrigin    |-> row.txOrigin,
      ClauseIndex |-> row.clauseIndex,
      Address     |-> row.address,
      Topics      |-> [i \in 1..5 |-> IF topics[i] # NULL THEN Ptr(topics[i]) ELSE Nil],
      Data        |-> row.data ]

\* rows.Scan and the construction of the record in queryTransfers.
ScanTransfer(row) ==
    [ BlockNumber |-> row.blockNumber,
      Index       |-> row.transferIndex,
      BlockID     |-> row.blockID,
      BlockTime   |-> row.blockTime,
      TxID        |-> row.txID,
      TxOrigin    |-> row.txOrigin,
      ClauseIndex |-> row.clauseIndex,
      Sender      |-> row.sender,
      Recipient   |-> row.recipient,
      Amount      |-> SetBytes(row.amount) ]

queryEvents(table, stmt) ==
    LET rows == Rows(table, stmt, "eventIndex") IN
    [i \in 1..Len(rows) |-> ScanEvent(rows[i])]

queryTransfers(table, stmt) ==
    LET rows == Rows(table, stmt, "transferIndex") IN
    [i \in 1..Len(rows) |-> ScanTransfer(rows[i])]

\* LogDB.FilterEvents / FilterTransfers as functions of the table and the
\* filter pointer.
FilterEventsResult(table, filter) ==
    IF IsNil(filter) THEN queryEvents(table, SelectAll)
    ELSE queryEvents(table, EventStmt(Deref(filter)))

FilterTransfersResult(table, filter) ==
    IF IsNil(filter) THEN queryTransfers(table, SelectAll)
    ELSE queryTransfers(table, TransferStmt(Deref(filter)))

\* ------------------------------------------- cancellation and read failures
\* The caller's context: never done, done when the call is made, or done
\* once k rows have been decoded.
Background == [at |-> "never", k |-> 0]
CancelledAtCall == [at |-> "call", k |-> 0]
CancelledAfter(k) == [at |-> "scan", k |-> k]
Contexts(n) == {Background, CancelledAtCall} \cup {CancelledAfter(k) : k \in 0..n}

\* What the backing store does to a query: nothing, QueryContext fails, the
\* k-th row cannot be decoded by rows.Scan, or the iteration ends after k
\* rows with rows.Err set.
NoFault == [at |-> "none", k |-> 0]
QueryFault == [at |-> "query", k |-> 0]
ScanFault(k) == [at |-> "scan", k |-> k]
RowsFault(k) == [at |-> "rows", k |-> k]
QueryFaults(n) ==
    {NoFault, QueryFault} \cup {ScanFault(k) : k \in 1..n} \cup {RowsFault(k) : k \in 0..n}

\* A returned ([]record, error) pair; the nil slice is the empty sequence.
Returned(out) == [out |-> out, err |-> FALSE, kind |-> "none"]
Failed(kind) == [out |-> <<>>, err |-> TRUE, kind |-> kind]

\* select { case <-ctx.Done(): ... } at the top of the loop body for row k.
CtxDoneOnlyBeforeScan(ctx, k) == ctx.at = "scan" /\ ctx.k < k /\ k = 1
CtxDone(ctx, k) == ctx.at = "scan" /\ ctx.k < k

\* for rows.Next() { check ctx; Scan; append }; rows.Err(): the loop from row
\* k on, acc the records appended so far.
RECURSIVE ScanRowsKeepingPartial(_, _, _, _, _), ScanRows(_, _, _, _, _)
ScanRowsKeepingPartial(records, k, ctx, fault, acc) ==
    IF k > Len(records) \/ (fault.at = "rows" /\ fault.k < k)
    THEN IF fault.at = "rows" THEN [Failed("storage") EXCEPT !.out = acc] ELSE Returned(acc)
    ELSE IF CtxDone(ctx, k) THEN [Failed("context") EXCEPT !.out = acc]
    ELSE IF fault.at = "scan" /\ fault.k = k THEN [Failed("storage") EXCEPT !.out = acc]
    ELSE ScanRowsKeepingPartial(records, k + 1, ctx, fault, Append(acc, records[k]))
ScanRows(records, k, ctx, fault, acc) ==
    IF k > Len(records) \/ (fault.at = "rows" /\ fault.k < k)
    THEN IF fault.at = "rows" THEN Failed("storage") ELSE Returned(acc)
    ELSE IF CtxDone(ctx, k) THEN Failed("context")
    ELSE IF fault.at = "scan" /\ fault.k = k THEN Failed("storage")
    ELSE ScanRows(records, k + 1, ctx, fault, Append(acc, records[k]))

\* queryEvents / queryTransfers under a context and a fault; records is what
\* the statement's rows decode to.  QueryContext returns the context's error
\* when the context is done as it is called.
QueryOutcome(records, ctx, fault) ==
    IF ctx.at = "call" THEN Failed("context")
    ELSE IF fault.at = "query" THEN Failed("storage")
    ELSE ScanRows(records, 1, ctx, fault, <<>>)

\* ------------------------------------------------------------------ actions
\* Once closed, the sql.DB gives out no connection: Begin, QueryContext and
\* QueryRow return an error.
DBOpenAlways(isClosed) == TRUE
DBOpen(isClosed) == ~isClosed

\* The goroutines that call Commit concurrently, and a Commit call not made.
Writers == {1, 2}
Idle == [pc |-> "idle"]

Init ==
    /\ eventTable = {}
    /\ transferTable = {}
    /\ config = {}
    /\ batches = <<>>
    /\ inserted = 0
    /\ res = [op |-> "New"]
    /\ lastCommitted = 0
    /\ closed = FALSE
    /\ conn = {}
    /\ procs = [p \in Writers |-> Idle]
    /\ replayed = <<>>

\* LogDB.Prepare: a new batch bound to the header, no I/O.
Prepare(header) ==
    /\ batches' = <<NewBatch(header)>>
    /\ inserted' = 0
    /\ res' = [op |-> "Prepare"]
    /\ UNCHANGED <<eventTable, transferTable, config, lastCommitted, closed, conn, procs, replayed>>

\* bb.ForTransaction(txID, txOrigin).Insert(events, transfers, clauseIndex)
InsertIntoIndexedPerCall(bb, txID, txOrigin, events, transfers, clauseIndex) ==
    [bb EXCEPT
        !.events = bb.events \o
            [i \in 1..Len(events) |->
                newEvent(bb.header, i - 1, txID, txOrigin, clauseIndex, events[i])],
        !.transfers = bb.transfers \o
            [i \in 1..Len(transfers) |->
                newTransfer(bb.header, i - 1, txID, txOrigin, clauseIndex, transfers[i])]]
InsertInto(bb, txID, txOrigin, events, transfers, clauseIndex) ==
    [bb EXCEPT
        !.events = bb.events \o
            [i \in 1..Len(events) |->
                newEvent(bb.header, Len(bb.events) + i - 1, txID, txOrigin, clauseIndex, events[i])],
        !.transfers = bb.transfers \o
            [i \in 1..Len(transfers) |->
                newTransfer(bb.header, Len(bb.transfers) + i - 1, txID, txOrigin, clauseIndex,
                            transfers[i])]]

\* The pipeline hands over the outputs of the block in execution order.
Insert ==
    /\ batches # <<>>
    /\ inserted < Len(BlockOutputs(batches[1].header))
    /\ inserted' = inserted + 1
    /\ LET o == BlockOutputs(batches[1].header)[inserted + 1] IN
       batches' = <<InsertInto(batches[1], o.txID, o.txOrigin, o.events, o.transfers,
                               o.clauseIndex)>>
    /\ res' = [op |-> "Insert"]
    /\ UNCHANGED <<eventTable, transferTable, config, lastCommitted, closed, conn, procs, replayed>>

\* One Insert call through the handle ForTransaction(txID, txOrigin), with
\* inputs the caller chooses.
InsertCall(txID, txOrigin, events, transfers, clauseIndex) ==
    /\ batches # <<>>
    /\ inserted < MaxInserts
    /\ inserted' = inserted + 1
    /\ batches' = <<InsertInto(batches[1], txID, txOrigin, events, transfers, clauseIndex)>>
    /\ res' = [op |-> "Insert", bb |-> batches[1], txID |-> txID, txOrigin |-> txOrigin,
               events |-> events, transfers |-> transfers, clauseIndex |-> clauseIndex]
    /\ UNCHANGED <<eventTable, transferTable, config, lastCommitted, closed, conn, procs, replayed>>

\* The batch holding all clause outputs of a block.
RECURSIVE InsertOutputs(_, _)
InsertOutputs(bb, outputs) ==
    IF outputs = <<>> THEN bb
    ELSE LET o == Head(outputs) IN
         InsertOutputs(InsertInto(bb, o.txID, o.txOrigin, o.events, o.transfers, o.clauseIndex),
                       Tail(outputs))
FullBatch(header) == InsertOutputs(NewBatch(header), BlockOutputs(header))

\* BlockBatch.Commit, with the failure the backing store injects.
CommitCall(fail) ==
    /\ batches # <<>>
    /\ fail \in FailurePoints(batches[1])
    /\ ~DBOpen(closed) => fail.at = "begin"
    /\ LET bb == batches[1]
           r == execInTx(Store, bb, fail)
       IN /\ eventTable' = r.db.event
          /\ transferTable' = r.db.transfer
          /\ config' = r.db.config
          /\ res' = [op |-> "Commit", err |-> r.err, fail |-> fail, bb |-> bb, pre |-> Store]
          /\ lastCommitted' = IF ~r.err /\ bb.header.number > 0
                              THEN bb.header.number ELSE lastCommitted
    /\ UNCHANGED <<batches, inserted, closed, conn, procs>>

Commit(fail) ==
    /\ CommitCall(fail)
    /\ UNCHANGED replayed

\* The replay history after a Commit of bb: a commit that fails changes
\* nothing; the canonical block that follows the replayed ones extends the
\* replay, any other canonical block starts one, any other batch ends it.
ReplayAfter(rep, bb, err) ==
    IF err THEN rep
    ELSE IF bb # FullBatch(Header(bb.header.number, 0)) THEN <<>>
    ELSE IF rep # <<>> /\ bb.header.number = rep[2] + 1 THEN <<rep[1], bb.header.number>>
    ELSE <<bb.header.number, bb.header.number>>

\* Commit, keeping the replay history.
ReplayCommit(fail) ==
    /\ CommitCall(fail)
    /\ replayed' = ReplayAfter(replayed, batches[1], res'.err)

\* The pipeline calls Commit once all clause outputs of the block are inserted.
AllInserted ==
    /\ batches # <<>>
    /\ inserted = Len(BlockOutputs(batches[1].header))

\* LogDB.QueryLastBlockNumber: the marker, or 0 when no row exists.
LastBlockNumber(cfg) ==
    LET rows == {row \in cfg : row.key = configBlockNumKey} IN
    IF rows = {} THEN 0 ELSE Uint32((CHOOSE row \in rows : TRUE).value)

QueryLastBlockNumber ==
    /\ res' = [op |-> "QueryLastBlockNumber",
               val |-> IF DBOpen(closed) THEN LastBlockNumber(config) ELSE 0,
               err |-> ~DBOpen(closed)]
    /\ UNCHANGED <<eventTable, transferTable, config, batches, inserted,
                   lastCommitted, closed, conn, procs, replayed>>

FilterEvents(filter) ==
    /\ DBOpen(closed)
    /\ res' = [op |-> "FilterEvents", filter |-> filter, err |-> FALSE,
               out |-> FilterEventsResult(eventTable, filter)]
    /\ UNCHANGED <<eventTable, transferTable, config, batches, inserted,
                   lastCommitted, closed, conn, procs, replayed>>

FilterTransfers(filter) ==
    /\ DBOpen(closed)
    /\ res' = [op |-> "FilterTransfers", filter |-> filter, err |-> FALSE,
               out |-> FilterTransfersResult(transferTable, filter)]
    /\ UNCHANGED <<eventTable, transferTable, config, batches, inserted,
                   lastCommitted, closed, conn, procs, replayed>>

\* FilterEvents / FilterTransfers given a context, on a store that may fail.
FilterEventsCtx(ctx, filter, fault) ==
    /\ ~DBOpen(closed) => (ctx.at = "call" \/ fault.at = "query")
    /\ LET r == QueryOutcome(FilterEventsResult(eventTable, filter), ctx, fault) IN
       res' = [op |-> "FilterEvents", filter |-> filter, ctx |-> ctx, fault |-> fault,
               err |-> r.err, kind |-> r.kind, out |-> r.out]
    /\ UNCHANGED <<eventTable, transferTable, config, batches, inserted,
                   lastCommitted, closed, conn, procs, replayed>>

FilterTransfersCtx(ctx, filter, fault) ==
    /\ ~DBOpen(closed) => (ctx.at = "call" \/ fault.at = "query")
    /\ LET r == QueryOutcome(FilterTransfersResult(transferTable, filter), ctx, fault) IN
       res' = [op |-> "FilterTransfers", filter |-> filter, ctx |-> ctx, fault |-> fault,
               err |-> r.err, kind |-> r.kind, out |-> r.out]
    /\ UNCHANGED <<eventTable, transferTable, config, batches, inserted,
                   lastCommitted, closed, conn, procs, replayed>>

\* LogDB.Close: closes the sql.DB; it has no result.
Close ==
    /\ closed' = TRUE
    /\ res' = [op |-> "Close"]
    /\ UNCHANGED <<eventTable, transferTable, config, batches, inserted, lastCommitted,
                   conn, procs, replayed>>

Next ==
    \/ \E header \in Headers : Prepare(header)
    \/ Insert
    \/ AllInserted /\ \E fail \in AllFailurePoints : Commit(fail)
    \/ QueryLastBlockNumber

Spec == Init /\ [][Next]_vars

\* ----------------------------------------------------------- filter inputs
RangeValues == {0, 1, 2}
Ranges ==
    {Nil} \cup {Ptr([Unit |-> u, From |-> f, To |-> t]) :
                    u \in {"Block", "Time"}, f \in RangeValues, t \in RangeValues}

NoTopics == [j \in 1..5 |-> Nil]
EventCriteria(address, topics) == [Address |-> address, Topics |-> topics]
EventGroups ==
    { EventCriteria(Ptr("A"), NoTopics),
      EventCriteria(Ptr("B"), NoTopics),
      EventCriteria(Ptr("A"), [NoTopics EXCEPT ![1] = Ptr("T1")]),
      EventCriteria(Nil, [NoTopics EXCEPT ![2] = Ptr("T2")]) }

TransferCriteria(origin, sender, recipient) ==
    [TxOrigin |-> origin, Sender |-> sender, Recipient |-> recipient]
TransferGroups ==
    { TransferCriteria(Ptr("A"), Nil, Nil),
      TransferCriteria(Nil, Ptr("B"), Nil),
      TransferCriteria(Nil, Ptr("A"), Ptr("B")) }

\* nil, empty, and every list of one or two groups
CriteriaSets(groups) ==
    {NilSlice, Slice(<<>>)}
    \cup {Slice(<<g>>) : g \in groups}
    \cup {Slice(<<g, h>>) : g \in groups, h \in groups}

Orders == {"ASC", "DESC"}
OptionsValues ==
    {Nil, Ptr([Offset |-> 0, Limit |-> 0])}
    \cup {Ptr([Offset |-> o, Limit |-> l]) : o \in {0, 1, 2}, l \in {2, 5}}

\* Filters with criteria groups and no pagination.
EventFilters ==
    [Range : Ranges, CriteriaSet : CriteriaSets(EventGroups), Order : Orders, Options : {Nil}]
TransferFilters ==
    [TxID : {Nil, Ptr("X1"), Ptr("X2")}, Range : Ranges,
     CriteriaSet : CriteriaSets(TransferGroups), Order : {"ASC"}, Options : {Nil}]

\* Filters with ordering and pagination: events with no criteria or with two
\* groups, transfers with no criteria.
PagedEventFilters ==
    [Range : Ranges,
     CriteriaSet : {NilSlice, Slice(<<EventCriteria(Ptr("A"), NoTopics),
                                      EventCriteria(Nil, [NoTopics EXCEPT ![2] = Ptr("T2")])>>)},
     Order : Orders, Options : OptionsValues]
PagedTransferFilters ==
    [TxID : {Nil}, Range : Ranges,
     CriteriaSet : {NilSlice}, Order : Orders, Options : OptionsValues]

Pointers(values) == {Nil} \cup {Ptr(v) : v \in values}

\* ------------------------------------------------- the read specifications
\* The chain pipeline: one batch per block of the canonical chain, in chain
\* order or again from a height already indexed, all clause outputs of the
\* block inserted before the one Commit.
PipelinePrepare(header) ==
    /\ header.number <= LastBlockNumber(config) + 1
    /\ Prepare(header)

PipelineCommit ==
    /\ AllInserted
    /\ Commit(NoFailure)

\* A query changes nothing but the record of the last call, so a query that
\* directly follows another query reaches no state that the same query
\* issued before it does not reach: the read side issues its queries after
\* calls of the pipeline.
AfterPipelineCall == res.op \notin {"FilterEvents", "FilterTransfers"}

NextEvents ==
    \/ \E header \in CanonicalHeaders : PipelinePrepare(header)
    \/ Insert
    \/ PipelineCommit
    \/ AfterPipelineCall /\ \E filter \in Pointers(EventFilters) : FilterEvents(filter)

SpecEvents == Init /\ [][NextEvents]_vars

NextTransfers ==
    \/ \E header \in CanonicalHeaders : PipelinePrepare(header)
    \/ Insert
    \/ PipelineCommit
    \/ AfterPipelineCall /\ \E filter \in Pointers(TransferFilters) : FilterTransfers(filter)

SpecTransfers == Init /\ [][NextTransfers]_vars

NextPaged ==
    \/ \E header \in CanonicalHeaders : PipelinePrepare(header)
    \/ Insert
    \/ PipelineCommit
    \/ AfterPipelineCall /\ \E filter \in Pointers(PagedEventFilters) : FilterEvents(filter)
    \/ AfterPipelineCall /\ \E filter \in Pointers(PagedTransferFilters) : FilterTransfers(filter)

SpecPaged == Init /\ [][NextPaged]_vars

\* Filters whose criteria list is nil or present but empty.
NoCriteriaSets == {NilSlice, Slice(<<>>)}
NoCriteriaOptions == {Nil, Ptr([Offset |-> 1, Limit |-> 2])}
NoCriteriaEventFilters ==
    [Range : Ranges, CriteriaSet : NoCriteriaSets, Order : Orders, Options : NoCriteriaOptions]
NoCriteriaTransferFilters ==
    [TxID : {Nil, Ptr("X1")}, Range : Ranges, CriteriaSet : NoCriteriaSets, Order : Orders,
     Options : NoCriteriaOptions]

NextNoCriteria ==
    \/ \E header \in CanonicalHeaders : PipelinePrepare(header)
    \/ Insert
    \/ PipelineCommit
    \/ AfterPipelineCall /\ \E filter \in Pointers(NoCriteriaEventFilters) : FilterEvents(filter)
    \/ AfterPipelineCall /\ \E filter \in Pointers(NoCriteriaTransferFilters) :
                                FilterTransfers(filter)

SpecNoCriteria == Init /\ [][NextNoCriteria]_vars

\* ------------------------------------- reads under cancellation and faults
FaultEventFilters ==
    {Nil, Ptr([Range |-> Nil, CriteriaSet |-> NilSlice, Order |-> "DESC", Options |-> Nil])}
FaultTransferFilters ==
    {Nil, Ptr([TxID |-> Nil, Range |-> Nil, CriteriaSet |-> NilSlice, Order |-> "DESC",
               Options |-> Nil])}

NextQueryFaults ==
    \/ \E header \in CanonicalHeaders : PipelinePrepare(header)
    \/ Insert
    \/ PipelineCommit
    \/ AfterPipelineCall /\ \E filter \in FaultEventFilters :
          \E ctx \in Contexts(Cardinality(eventTable)) :
             \E fault \in QueryFaults(Cardinality(eventTable)) :
                FilterEventsCtx(ctx, filter, fault)
    \/ AfterPipelineCall /\ \E filter \in FaultTransferFilters :
          \E ctx \in Contexts(Cardinality(transferTable)) :
             \E fault \in QueryFaults(Cardinality(transferTable)) :
                FilterTransfersCtx(ctx, filter, fault)

SpecQueryFaults == Init /\ [][NextQueryFaults]_vars

\* ------------------------------------------------- the life of one batch
\* Clause outputs a caller may hand to Insert: events with no, one and five
\* topics, transfers of 0 and of a two-byte amount, calls with no event or
\* no transfer, two handles.
GivenOutputs ==
    { Output("X1", "A", 0, <<TxEvent("A", <<>>)>>, <<TxTransfer("A", "B", 0)>>),
      Output("X2", "B", 1, <<TxEvent("B", <<"T1", "T2", "T3", "T4", "T5">>),
                             TxEvent("A", <<"T1">>)>>, <<>>),
      Output("X1", "A", 2, <<>>, <<TxTransfer("B", "A", 258), TxTransfer("A", "A", 1)>>) }

\* Failures of single statements: none, the second statement
\* (checked, so the transaction rolls back after the first took effect), the
\* third (above genesis the marker write, whose error is dropped).
WriterFailurePoints ==
    {NoFailure, [at |-> "statement", k |-> 2], [at |-> "statement", k |-> 3]}

\* Commit outcomes as a whole: success, Begin fails, tx.Commit fails.
TxFailurePoints == {NoFailure, [at |-> "begin", k |-> 0], [at |-> "commit", k |-> 0]}

\* A batch for a block of the chain is prepared on the empty store; the
\* caller then inserts, commits and reads unfiltered in any order, as often
\* as it likes.
PrepareOnEmpty(header) ==
    /\ eventTable = {}
    /\ transferTable = {}
    /\ Prepare(header)

NextBatch ==
    \/ \E header \in CanonicalHeaders : PrepareOnEmpty(header)
    \/ \E o \in GivenOutputs : InsertCall(o.txID, o.txOrigin, o.events, o.transfers, o.clauseIndex)
    \/ \E fail \in TxFailurePoints : Commit(fail)
    \/ AfterPipelineCall /\ FilterEvents(Nil)
    \/ AfterPipelineCall /\ FilterTransfers(Nil)

SpecBatch == Init /\ [][NextBatch]_vars

\* ------------------------------------------------------ closing the store
\* The pipeline and the readers go on calling after Close.
NextClose ==
    \/ \E header \in CanonicalHeaders : PipelinePrepare(header)
    \/ Insert
    \/ AllInserted /\ \E fail \in TxFailurePoints : Commit(fail)
    \/ ~closed /\ Close
    \/ \E filter \in FaultEventFilters : \E ctx \in {Background, CancelledAtCall} :
          \E fault \in {NoFault, QueryFault} : FilterEventsCtx(ctx, filter, fault)
    \/ \E filter \in FaultTransferFilters : \E ctx \in {Background, CancelledAtCall} :
          \E fault \in {NoFault, QueryFault} : FilterTransfersCtx(ctx, filter, fault)
    \/ QueryLastBlockNumber

SpecClose == Init /\ [][NextClose]_vars

\* ------------------------------------------------- replaying the chain
\* Any blocks are committed, complete, with failures; the history records
\* when the latest commits replay the canonical chain from some height.
NextReplay ==
    \/ \E header \in Headers : Prepare(header)
    \/ Insert
    \/ AllInserted /\ \E fail \in WriterFailurePoints \cup TxFailurePoints : ReplayCommit(fail)

SpecReplay == Init /\ [][NextReplay]_vars

\* ------------------------------------------------ concurrent Commit calls
\* db.SetMaxOpenConns(1): the pool hands out a connection while fewer than
\* MaxOpenConns are held; a caller that gets none waits.
MaxOpenConns == 1
CanOpenConnUnlimited(holders) == TRUE
CanOpenConn(holders) == Cardinality(holders) < MaxOpenConns

AllIdle == \A p \in Writers : procs[p].pc = "idle"

\* Two goroutines call Commit, each on a complete batch of its own, on the
\* fresh store or once the pipeline has committed.
CallCommits(h1, fail1, h2, fail2) ==
    /\ AllIdle
    /\ ~closed
    /\ res.op \in {"New", "Commit"}
    /\ fail1 \in FailurePoints(FullBatch(h1))
    /\ fail2 \in FailurePoints(FullBatch(h2))
    /\ fail1 = NoFailure \/ fail2 = NoFailure
    /\ procs' = [p \in Writers |->
                   [pc |-> "begin", bb |-> FullBatch(IF p = 1 THEN h1 ELSE h2),
                    fail |-> IF p = 1 THEN fail1 ELSE fail2,
                    k |-> 1, undo |-> Store, start |-> Store, err |-> FALSE]]
    /\ res' = [op |-> "Prepare"]
    /\ UNCHANGED <<eventTable, transferTable, config, batches,
                   inserted, lastCommitted, closed, conn, replayed>>

\* tx, err := bb.db.Begin(): takes a connection of the pool and keeps it
\* for the transaction; the state at this point is what Rollback restores.
BeginWithoutConn(p) ==
    /\ procs[p].pc = "begin"
    /\ CanOpenConn(conn)
    /\ procs' = [procs EXCEPT ![p].pc = "tx", ![p].undo = Store]
    /\ res' = [op |-> "Begin", p |-> p]
    /\ UNCHANGED <<eventTable, transferTable, config, batches,
                   inserted, lastCommitted, closed, conn, replayed>>
Begin(p) ==
    /\ procs[p].pc = "begin"
    /\ CanOpenConn(conn)
    /\ conn' = conn \cup {p}
    /\ procs' = [procs EXCEPT ![p].pc = "tx", ![p].undo = Store]
    /\ res' = [op |-> "Begin", p |-> p]
    /\ UNCHANGED <<eventTable, transferTable, config, batches,
                   inserted, lastCommitted, closed, replayed>>

\* The transaction is over: the connection goes back to the pool and Commit
\* returns.
Finish(p, db, err) ==
    LET w == procs[p] IN
    /\ eventTable' = db.event
    /\ transferTable' = db.transfer
    /\ config' = db.config
    /\ conn' = conn \ {p}
    /\ procs' = [procs EXCEPT ![p].pc = "done", ![p].err = err]
    /\ res' = [op |-> "Commit", err |-> err, fail |-> w.fail, bb |-> w.bb, pre |-> w.undo]
    /\ lastCommitted' = IF ~err /\ w.bb.header.number > 0
                        THEN w.bb.header.number ELSE lastCommitted

\* The next tx.Exec of the closure, on the connection of the transaction.  A
\* checked error ends the closure and execInTx rolls back.
Exec(p) ==
    /\ procs[p].pc = "tx"
    /\ LET w == procs[p]
           sts == TxStatements(w.bb)
       IN /\ w.k <= Len(sts)
          /\ IF w.fail.at = "statement" /\ w.fail.k = w.k
             THEN IF sts[w.k].checked
                  THEN Finish(p, w.undo, TRUE)
                  ELSE /\ procs' = [procs EXCEPT ![p].k = w.k + 1]
                       /\ res' = [op |-> "Exec", p |-> p]
                       /\ UNCHANGED <<eventTable, transferTable, config, conn,
                                      lastCommitted>>
             ELSE LET db == ExecStatement(Store, w.bb, sts[w.k]) IN
                  /\ eventTable' = db.event
                  /\ transferTable' = db.transfer
                  /\ config' = db.config
                  /\ procs' = [procs EXCEPT ![p].k = w.k + 1]
                  /\ res' = [op |-> "Exec", p |-> p]
                  /\ UNCHANGED <<conn, lastCommitted>>
    /\ UNCHANGED <<batches, inserted, closed, replayed>>

\* return tx.Commit(), after the closure returned nil.
EndTx(p) ==
    /\ procs[p].pc = "tx"
    /\ procs[p].k > Len(TxStatements(procs[p].bb))
    /\ IF procs[p].fail.at = "commit"
       THEN Finish(p, procs[p].undo, TRUE)
       ELSE Finish(p, Store, FALSE)
    /\ UNCHANGED <<batches, inserted, closed, replayed>>

\* A read needs a connection for its query; reads follow a step of a writer.
ReadOps == {"FilterEvents", "FilterTransfers", "QueryLastBlockNumber"}
ReadAllowed == CanOpenConn(conn) /\ res.op \notin ReadOps

\* The pipeline indexes the canonical chain; then two Commit calls run
\* concurrently with each other and with reads, one for a block of the
\* canonical chain, one for any block.
NextConcurrent ==
    \/ AllIdle /\ \E header \in CanonicalHeaders : PipelinePrepare(header)
    \/ AllIdle /\ Insert
    \/ AllIdle /\ PipelineCommit
    \/ \E h1 \in CanonicalHeaders, h2 \in Headers : \E fail1, fail2 \in WriterFailurePoints :
          CallCommits(h1, fail1, h2, fail2)
    \/ \E p \in Writers : Begin(p)
    \/ \E p \in Writers : Exec(p)
    \/ \E p \in Writers : EndTx(p)
    \/ ReadAllowed /\ FilterEvents(Nil)
    \/ ReadAllowed /\ FilterTransfers(Nil)
    \/ ReadAllowed /\ QueryLastBlockNumber

SpecConcurrent == Init /\ [][NextConcurrent]_vars

\* ------------------------------------------- two batches of the same store
\* db.Prepare(header) by a caller that keeps the batch it already holds: at
\* most two batches are held.
PrepareAnother(header) ==
    /\ Len(batches) < 2
    /\ batches' = Append(batches, NewBatch(header))
    /\ res' = [op |-> "Prepare"]
    /\ UNCHANGED <<eventTable, transferTable, config, inserted, lastCommitted,
                   closed, conn, procs, replayed>>

\* One Insert call on the b-th batch held, through ForTransaction(txID,
\* txOrigin); inserted counts the Insert calls on all batches.
InsertAtShared(b, txID, txOrigin, events, transfers, clauseIndex) ==
    /\ b \in 1..Len(batches)
    /\ inserted < MaxInserts
    /\ inserted' = inserted + 1
    /\ batches' = [c \in 1..Len(batches) |->
                     InsertInto(batches[c], txID, txOrigin, events, transfers, clauseIndex)]
    /\ res' = [op |-> "Insert", b |-> b, bb |-> batches[b], txID |-> txID,
               txOrigin |-> txOrigin, events |-> events, transfers |-> transfers,
               clauseIndex |-> clauseIndex]
    /\ UNCHANGED <<eventTable, transferTable, config, lastCommitted,
                   closed, conn, procs, replayed>>
InsertAt(b, txID, txOrigin, events, transfers, clauseIndex) ==
    /\ b \in 1..Len(batches)
    /\ inserted < MaxInserts
    /\ inserted' = inserted + 1
    /\ batches' = [batches EXCEPT
                     ![b] = InsertInto(batches[b], txID, txOrigin, events, transfers,
                                       clauseIndex)]
    /\ res' = [op |-> "Insert", b |-> b, bb |-> batches[b], txID |-> txID,
               txOrigin |-> txOrigin, events |-> events, transfers |-> transfers,
               clauseIndex |-> clauseIndex]
    /\ UNCHANGED <<eventTable, transferTable, config, lastCommitted,
                   closed, conn, procs, replayed>>

\* Commit of the b-th batch held.
CommitAt(b, fail) ==
    /\ b \in 1..Len(batches)
    /\ fail \in FailurePoints(batches[b])
    /\ ~DBOpen(closed) => fail.at = "begin"
    /\ LET bb == batches[b]
           r == execInTx(Store, bb, fail)
       IN /\ eventTable' = r.db.event
          /\ transferTable' = r.db.transfer
          /\ config' = r.db.config
          /\ res' = [op |-> "Commit", b |-> b, err |-> r.err, fail |-> fail, bb |-> bb,
                     pre |-> Store]
          /\ lastCommitted' = IF ~r.err /\ bb.header.number > 0
                              THEN bb.header.number ELSE lastCommitted
    /\ UNCHANGED <<batches, inserted, closed, conn, procs, replayed>>

\* Blocks the two batches are prepared for: the first two above genesis.
FrameHeaders == {Header(1, 0), Header(2, 0)}

\* Two batches are prepared, filled with clause outputs that have events and
\* committed (with success, or tx.Commit failing) in any order, with
\* unfiltered reads and marker reads in between.
NextFrame ==
    \/ \E header \in FrameHeaders : PrepareAnother(header)
    \/ \E b \in {1, 2} : \E o \in {g \in GivenOutputs : g.events # <<>>} :
          InsertAt(b, o.txID, o.txOrigin, o.events, o.transfers, o.clauseIndex)
    \/ \E b \in {1, 2} : \E fail \in {NoFailure, [at |-> "commit", k |-> 0]} : CommitAt(b, fail)
    \/ res.op \notin ReadOps /\ FilterEvents(Nil)
    \/ res.op \notin ReadOps /\ FilterTransfers(Nil)
    \/ res.op \notin ReadOps /\ QueryLastBlockNumber

SpecFrame == Init /\ [][NextFrame]_vars

\* ------------------------------------------------------- claims: write path
\* The rows a batch inserts.
BatchEventRows(bb) == {EventRow(bb.events[i]) : i \in 1..Len(bb.events)}
BatchTransferRows(bb) == {TransferRow(bb.transfers[i]) : i \in 1..Len(bb.transfers)}

CommitReturned == res.op = "Commit"
CommitSucceeded == res.op = "Commit" /\ ~res.err

\* C1: after a successful Commit of a batch at height H > 0, (i) no record
\* stored before with block number >= H remains unless the batch holds it,
\* (ii) the stored records with block number >= H are exactly the batch's
\* records, (iii) the stored records with block number < H are unchanged.
C1_CommitReplacesFromHeight ==
    (CommitSucceeded /\ res.bb.header.number > 0) =>
        LET H == res.bb.header.number IN
        /\ \A row \in res.pre.event :
              (row.blockNumber >= H /\ row \in eventTable) => row \in BatchEventRows(res.bb)
        /\ \A row \in res.pre.transfer :
              (row.blockNumber >= H /\ row \in transferTable) => row \in BatchTransferRows(res.bb)
        /\ {row \in eventTable : row.blockNumber >= H} = BatchEventRows(res.bb)
        /\ {row \in transferTable : row.blockNumber >= H} = BatchTransferRows(res.bb)
        /\ {row \in eventTable : row.blockNumber < H}
              = {row \in res.pre.event : row.blockNumber < H}
        /\ {row \in transferTable : row.blockNumber < H}
              = {row \in res.pre.transfer : row.blockNumber < H}

\* A reorg commit at height 1 over records at heights 0, 1 and 2, where a
\* stored height-1 event is not among the batch's records.
C1_Witness ==
    /\ CommitSucceeded
    /\ res.bb.header.number = 1
    /\ res.bb.events # <<>>
    /\ res.bb.transfers # <<>>
    /\ \E row \in res.pre.event : row.blockNumber = 0
    /\ \E row \in res.pre.event : row.blockNumber = 1 /\ row \notin BatchEventRows(res.bb)
    /\ \E row \in res.pre.event : row.blockNumber = 2
    /\ \E row \in res.pre.transfer : row.blockNumber = 2

\* C2: a Commit in which any step fails returns an error and leaves both
\* tables and the marker as they were before the call.
C2_FailedStepRollsBack ==
    (CommitReturned /\ res.fail.at # "none") => (res.err /\ Store = res.pre)

\* C3: a Commit at height H > 0 that returns nil has persisted the
\* truncation, the marker H and every insert together.
C3_SuccessPersistsAllSteps ==
    (CommitSucceeded /\ res.bb.header.number > 0) =>
        LET H == res.bb.header.number IN
        /\ LastBlockNumber(config) = H
        /\ eventTable = DeleteFrom(res.pre.event, H) \cup BatchEventRows(res.bb)
        /\ transferTable = DeleteFrom(res.pre.transfer, H) \cup BatchTransferRows(res.bb)

\* C4: QueryLastBlockNumber returns the height of the most recent successful
\* Commit with height > 0 (0 when there was none).
C4_MarkerIsLastCommittedHeight ==
    res.op = "QueryLastBlockNumber" => (~res.err /\ res.val = lastCommitted)

Elements(seq) == {seq[i] : i \in 1..Len(seq)}
Reverse(seq) == [i \in 1..Len(seq) |-> seq[Len(seq) + 1 - i]]

StoredEvents == {ScanEvent(row) : row \in eventTable}
StoredTransfers == {ScanTransfer(row) : row \in transferTable}

EventsReturned == res.op = "FilterEvents" /\ ~IsNil(res.filter)
TransfersReturned == res.op = "FilterTransfers" /\ ~IsNil(res.filter)
FilterReturned == EventsReturned \/ TransfersReturned

\* The Range constraint on a record: from <= x <= to when to >= from, x >= from
\* when to < from, x the block number or the block timestamp by the unit.
InRange(range, record) ==
    \/ IsNil(range)
    \/ LET r == Deref(range)
           x == IF r.Unit = "Time" THEN record.BlockTime ELSE record.BlockNumber
       IN IF r.To >= r.From THEN r.From <= x /\ x <= r.To ELSE x >= r.From

\* A group is satisfied when the record equals every non-nil field of it.
SatisfiesEventGroup(group, event) ==
    /\ IsNil(group.Address) \/ event.Address = Deref(group.Address)
    /\ \A j \in 1..5 :
          IsNil(group.Topics[j]) \/ event.Topics[j] = group.Topics[j]

SatisfiesTransferGroup(group, transfer) ==
    /\ IsNil(group.TxOrigin) \/ transfer.TxOrigin = Deref(group.TxOrigin)
    /\ IsNil(group.Sender) \/ transfer.Sender = Deref(group.Sender)
    /\ IsNil(group.Recipient) \/ transfer.Recipient = Deref(group.Recipient)

\* C6: for an EventFilter with a Range and one or more criteria groups,
\* FilterEvents returns exactly the stored events that satisfy the Range AND
\* at least one group.
C6_EventsRangeAndAnyGroup ==
    (EventsReturned /\ ~IsNil(Deref(res.filter).Range)
        /\ Deref(res.filter).CriteriaSet.elems # <<>>) =>
        LET f == Deref(res.filter) IN
        Elements(res.out) =
            {e \in StoredEvents :
                /\ InRange(f.Range, e)
                /\ \E i \in 1..Len(f.CriteriaSet.elems) :
                      SatisfiesEventGroup(f.CriteriaSet.elems[i], e)}

\* C7: FilterTransfers returns exactly the stored transfers that satisfy the
\* Range AND the TxID constraint AND at least one criteria group (any
\* transfer when there is no group), each once.
C7_TransfersRangeTxIDAndAnyGroup ==
    (TransfersReturned /\ IsNil(Deref(res.filter).Options)) =>
        LET f == Deref(res.filter)
            expected ==
                {t \in StoredTransfers :
                    /\ InRange(f.Range, t)
                    /\ IsNil(f.TxID) \/ t.TxID = Deref(f.TxID)
                    /\ \/ f.CriteriaSet.elems = <<>>
                       \/ \E i \in 1..Len(f.CriteriaSet.elems) :
                             SatisfiesTransferGroup(f.CriteriaSet.elems[i], t)}
        IN /\ Elements(res.out) = expected
           /\ Len(res.out) = Cardinality(expected)

\* A filter with a Range, a TxID and two groups, where a stored transfer
\* satisfies the second group but not the Range, and another is returned.
C7_Witness ==
    /\ TransfersReturned
    /\ LET f == Deref(res.filter) IN
       /\ ~IsNil(f.Range) /\ ~IsNil(f.TxID) /\ Len(f.CriteriaSet.elems) = 2
       /\ res.out # <<>>
       /\ \E t \in StoredTransfers :
             /\ SatisfiesTransferGroup(f.CriteriaSet.elems[2], t)
             /\ ~SatisfiesTransferGroup(f.CriteriaSet.elems[1], t)
             /\ ~InRange(f.Range, t)
       /\ \E t \in StoredTransfers :
             /\ SatisfiesTransferGroup(f.CriteriaSet.elems[2], t)
             /\ InRange(f.Range, t)
             /\ t.TxID # Deref(f.TxID)

\* C8: with no criteria (and no TxID, no pagination) the result is exactly
\* the records within the Range: from <= x <= to when to >= from, x >= from
\* when to < from, every record when the Range is nil.
C8_RangeBounds ==
    (FilterReturned /\ Deref(res.filter).CriteriaSet.elems = <<>>
        /\ IsNil(Deref(res.filter).Options)) =>
        LET f == Deref(res.filter) IN
        IF res.op = "FilterEvents"
        THEN Elements(res.out) = {e \in StoredEvents : InRange(f.Range, e)}
        ELSE Elements(res.out) = {t \in StoredTransfers : InRange(f.Range, t)}

\* A Time range with to = from that returns some stored transfers and
\* leaves out others.
C8_Witness ==
    /\ TransfersReturned
    /\ LET f == Deref(res.filter) IN
       /\ f.CriteriaSet.elems = <<>> /\ IsNil(f.Options) /\ ~IsNil(f.Range)
       /\ Deref(f.Range).Unit = "Time"
       /\ Deref(f.Range).To = Deref(f.Range).From
       /\ res.out # <<>>
       /\ \E t \in StoredTransfers : t.BlockTime > Deref(f.Range).To
       /\ \E t \in StoredTransfers : t.BlockTime < Deref(f.Range).From

\* (block number, sequence index) of a precedes that of b.
KeyLess(a, b) ==
    \/ a.BlockNumber < b.BlockNumber
    \/ a.BlockNumber = b.BlockNumber /\ a.Index < b.Index

\* C9: the result of a non-nil filter is sorted by (block number, sequence
\* index), ascending unless Order is DESC and then descending on both keys;
\* without Options the DESC result is the reverse of the ASC result.
C9_OrderedByBlockAndIndex ==
    FilterReturned =>
        LET f == Deref(res.filter)
            asc == [f EXCEPT !.Order = "ASC"]
        IN /\ \A i \in 1..Len(res.out) : \A j \in 1..Len(res.out) :
                 i < j => IF f.Order = "DESC" THEN KeyLess(res.out[j], res.out[i])
                          ELSE KeyLess(res.out[i], res.out[j])
           /\ (f.Order = "DESC" /\ IsNil(f.Options)) =>
                 res.out = Reverse(IF res.op = "FilterEvents"
                                   THEN FilterEventsResult(eventTable, Ptr(asc))
                                   ELSE FilterTransfersResult(transferTable, Ptr(asc)))

\* A DESC filter with a Time range and no Options that returns events of two
\* blocks, two of them of the same block.
C9_Witness ==
    /\ EventsReturned
    /\ LET f == Deref(res.filter) IN
       /\ f.Order = "DESC" /\ IsNil(f.Options) /\ ~IsNil(f.Range)
       /\ Deref(f.Range).Unit = "Time"
       /\ Len(res.out) >= 3
       /\ res.out[1].BlockNumber = res.out[2].BlockNumber
       /\ res.out[2].BlockNumber # res.out[3].BlockNumber

Max(a, b) == IF a >= b THEN a ELSE b

\* C10: with Options{offset, limit} the result is the slice of the result of
\* the same filter without Options that starts at rank offset + 1 and holds
\* min(limit, max(0, matches - offset)) records.
C10_PaginationSlicesOrderedMatches ==
    (FilterReturned /\ ~IsNil(Deref(res.filter).Options)) =>
        LET f == Deref(res.filter)
            o == Deref(f.Options)
            unpaged == [f EXCEPT !.Options = Nil]
            full == IF res.op = "FilterEvents"
                    THEN FilterEventsResult(eventTable, Ptr(unpaged))
                    ELSE FilterTransfersResult(transferTable, Ptr(unpaged))
            count == Min(o.Limit, Max(0, Len(full) - o.Offset))
        IN /\ Len(res.out) = count
           /\ \A i \in 1..count : res.out[i] = full[o.Offset + i]

\* offset 1, limit 2 over at least four matches of a filter with a Range and
\* criteria: the records ranked 2 and 3 are returned.
C10_Witness ==
    /\ EventsReturned
    /\ LET f == Deref(res.filter) IN
       /\ ~IsNil(f.Options) /\ ~IsNil(f.Range) /\ f.CriteriaSet.elems # <<>>
       /\ Deref(f.Options) = [Offset |-> 1, Limit |-> 2]
       /\ Len(FilterEventsResult(eventTable, Ptr([f EXCEPT !.Options = Nil]))) >= 4
       /\ Len(res.out) = 2

\* ----------------------------------------------- claims: criteria list, round trip
\* The filter of the last call with its criteria list made nil.
WithNilCriteria(filter) == Ptr([Deref(filter) EXCEPT !.CriteriaSet = NilSlice])

EmptyCriteriaReturned ==
    /\ FilterReturned
    /\ ~Deref(res.filter).CriteriaSet.isNil
    /\ Deref(res.filter).CriteriaSet.elems = <<>>

\* C11: in every store state, a FilterEvents / FilterTransfers call whose
\* criteria list is present but empty returns the same sequence as the
\* same filter with a nil criteria list; without pagination that is every
\* stored record inside the Range (and with the TxID, for transfers): the
\* empty list matches all records, never none.
C11_EmptyCriteriaAsNil ==
    /\ (EventsReturned /\ EmptyCriteriaReturned) =>
          LET f == Deref(res.filter) IN
          /\ res.out = FilterEventsResult(eventTable, WithNilCriteria(res.filter))
          /\ IsNil(f.Options) =>
                Elements(res.out) = {e \in StoredEvents : InRange(f.Range, e)}
    /\ (TransfersReturned /\ EmptyCriteriaReturned) =>
          LET f == Deref(res.filter) IN
          /\ res.out = FilterTransfersResult(transferTable, WithNilCriteria(res.filter))
          /\ IsNil(f.Options) =>
                Elements(res.out) = {t \in StoredTransfers :
                                        /\ InRange(f.Range, t)
                                        /\ IsNil(f.TxID) \/ t.TxID = Deref(f.TxID)}

\* An empty criteria list returned events and, in another call, transfers.
C11_Witness ==
    /\ EmptyCriteriaReturned
    /\ res.out # <<>>
    /\ IsNil(Deref(res.filter).Options)
    /\ ~IsNil(Deref(res.filter).Range)
    /\ Len(res.out) < (IF EventsReturned THEN Cardinality(eventTable)
                       ELSE Cardinality(transferTable))

\* The last call was a successful Commit on the empty store.
CommittedOnEmpty ==
    /\ CommitSucceeded
    /\ res.pre.event = {}
    /\ res.pre.transfer = {}

\* C12: when a batch has been committed on the empty store, the unfiltered
\* FilterEvents / FilterTransfers that follows returns exactly the batch's
\* events / transfers, in append order, every field equal (block number,
\* index, block id, block time, tx id, origin, clause index, address, the
\* five topic slots, data, sender, recipient, amount).
C12_RoundTrip ==
    [][ CommittedOnEmpty =>
          /\ (res'.op = "FilterEvents" /\ IsNil(res'.filter)) => res'.out = res.bb.events
          /\ (res'.op = "FilterTransfers" /\ IsNil(res'.filter)) =>
                res'.out = res.bb.transfers ]_vars

\* An unfiltered read returned the committed batch: three events, one with
\* no topic and one with five.
C12_Witness ==
    /\ res.op = "FilterEvents"
    /\ IsNil(res.filter)
    /\ Len(res.out) = 3
    /\ res.out = batches[1].events
    /\ \E i, j \in 1..3 : /\ \A k \in 1..5 : IsNil(res.out[i].Topics[k])
                          /\ \A k \in 1..5 : ~IsNil(res.out[j].Topics[k])

\* ------------------------------------------ claims: cancellation, read errors
\* The records the last filter call's statement selects from the store.
Selected ==
    IF res.op = "FilterEvents" THEN FilterEventsResult(eventTable, res.filter)
    ELSE FilterTransfersResult(transferTable, res.filter)

FilterCtxReturned == res.op \in {"FilterEvents", "FilterTransfers"}

\* The store did not fail before the check that sees the cancellation.
NoFaultBeforeCancel ==
    \/ res.fault.at = "none"
    \/ res.fault.at \in {"scan", "rows"} /\ res.fault.k > res.ctx.k

\* C13: a filter call whose context is already done when it is made returns
\* the context's error and no records, whatever the store holds (nothing
\* included); when the context becomes done during the scan and a further
\* row is produced, the call returns the context's error and no records.
C13_CancellationStopsTheCall ==
    FilterCtxReturned =>
      /\ res.ctx.at = "call" =>
            res.err /\ res.kind = "context" /\ res.out = <<>>
      /\ (res.ctx.at = "scan" /\ res.ctx.k < Len(Selected) /\ NoFaultBeforeCancel) =>
            res.err /\ res.kind = "context" /\ res.out = <<>>

\* The context became done after two rows were decoded, with rows left.
C13_Witness ==
    /\ FilterCtxReturned
    /\ res.ctx.at = "scan"
    /\ res.ctx.k = 2
    /\ Len(Selected) > 3
    /\ res.fault.at = "none"
    /\ res.kind = "context"

\* C14: every filter call returns either the full sequence its statement
\* selects and no error, or an error and the nil sequence: a call that fails
\* at the start of the query, at a cancellation seen during the scan, at a
\* row that cannot be decoded or at the iteration error after the rows
\* returns no record, also when rows were decoded before the failure.
C14_FullSequenceOrNilAndError ==
    FilterCtxReturned =>
      /\ IF res.err THEN res.out = <<>> ELSE res.out = Selected
      /\ res.fault.at \in {"query", "rows"} => res.err
      /\ (res.fault.at = "scan" /\ res.fault.k <= Len(Selected)) => res.err

\* The third row could not be decoded: two decoded records were dropped.
C14_Witness ==
    /\ FilterCtxReturned
    /\ res.ctx.at = "never"
    /\ res.fault = ScanFault(3)
    /\ Len(Selected) >= 3
    /\ res.err
    /\ res.out = <<>>

\* ------------------------------------------------- claims: the batch itself
\* C15: a batch is consumed by its first Commit.  A Commit that follows a
\* Commit on the same batch (returned with success: the batch is Committed;
\* returned with an error: the batch is Aborted) returns an error and leaves
\* the store as it is, and an Insert that follows a successful Commit is
\* refused: it adds no record to the batch.
C15_BatchIsConsumedByCommit ==
    [][ /\ (CommitReturned /\ res'.op = "Commit") => (res'.err /\ Store' = Store)
        /\ (CommitSucceeded /\ res'.op = "Insert") => batches' = batches ]_vars

InsertReturned == res.op = "Insert"

\* C16: in a batch, the i-th appended event and the i-th appended transfer
\* (from 0, each kind counted on its own across all Insert calls) have
\* sequence index i and the block number of the header, so no two records of
\* a kind share (block number, index); the records an Insert call appends
\* follow those appended before, one per given event / transfer in the given
\* order, and carry the tx id and origin of the call's handle and the clause
\* index of the call.
C16_IndexIsAppendPosition ==
    /\ batches # <<>> =>
          LET bb == batches[1] IN
          /\ \A i \in 1..Len(bb.events) :
                /\ bb.events[i].Index = i - 1
                /\ bb.events[i].BlockNumber = bb.header.number
          /\ \A i \in 1..Len(bb.transfers) :
                /\ bb.transfers[i].Index = i - 1
                /\ bb.transfers[i].BlockNumber = bb.header.number
          /\ Cardinality({EventKey(row) : row \in BatchEventRows(bb)}) = Len(bb.events)
          /\ Cardinality({TransferKey(row) : row \in BatchTransferRows(bb)}) = Len(bb.transfers)
    /\ InsertReturned =>
          LET bb == batches[1]
              ne == Len(res.bb.events)
              nt == Len(res.bb.transfers)
          IN /\ Len(bb.events) = ne + Len(res.events)
             /\ Len(bb.transfers) = nt + Len(res.transfers)
             /\ SubSeq(bb.events, 1, ne) = res.bb.events
             /\ SubSeq(bb.transfers, 1, nt) = res.bb.transfers
             /\ \A i \in 1..Len(res.events) :
                   /\ bb.events[ne + i].TxID = res.txID
                   /\ bb.events[ne + i].TxOrigin = res.txOrigin
                   /\ bb.events[ne + i].ClauseIndex = res.clauseIndex
                   /\ bb.events[ne + i].Address = res.events[i].address
             /\ \A i \in 1..Len(res.transfers) :
                   /\ bb.transfers[nt + i].TxID = res.txID
                   /\ bb.transfers[nt + i].TxOrigin = res.txOrigin
                   /\ bb.transfers[nt + i].ClauseIndex = res.clauseIndex
                   /\ bb.transfers[nt + i].Amount = res.transfers[i].amount

\* Three Insert calls through the handles X1, X2, X1: three events and three
\* transfers, the last two transfers appended by the third call.
C16_Witness ==
    /\ InsertReturned
    /\ inserted = 3
    /\ res.txID = "X1"
    /\ Len(res.transfers) = 2
    /\ Len(batches[1].events) = 3
    /\ Len(batches[1].transfers) = 3
    /\ [i \in 1..3 |-> batches[1].events[i].TxID] = <<"X1", "X2", "X2">>
    /\ [i \in 1..3 |-> batches[1].transfers[i].Index] = <<0, 1, 2>>

\* ----------------------------------------------------- claims: concurrency
InFlight == {p \in Writers : procs[p].pc = "tx"}
AllDone == \A p \in Writers : procs[p].pc = "done"

\* Commit of writer a, then Commit of writer b, each run alone, from the
\* state in which both were called.
Serial(a, b) ==
    LET ra == execInTx(procs[a].start, procs[a].bb, procs[a].fail)
        rb == execInTx(ra.db, procs[b].bb, procs[b].fail)
    IN [db |-> rb.db, err |-> [p \in Writers |-> IF p = a THEN ra.err ELSE rb.err]]

\* C17: of two concurrent Commit calls at most one has its transaction in
\* flight at any time, and once both have returned, both tables, the marker
\* and the two results are those of running the two commits one after the
\* other in one of the two orders.
C17_CommitsAreSerialized ==
    /\ Cardinality(InFlight) <= 1
    /\ AllDone =>
          \E a, b \in Writers :
             /\ a # b
             /\ Store = Serial(a, b).db
             /\ \A p \in Writers : procs[p].err = Serial(a, b).err[p]

\* Both commits, for two blocks of the same height, returned with success
\* on a store that held records, and the order made a difference.
C17_Witness ==
    /\ AllDone
    /\ \A p \in Writers : ~procs[p].err
    /\ procs[1].bb.header.number = procs[2].bb.header.number
    /\ procs[1].bb.header # procs[2].bb.header
    /\ procs[1].start.event # {}
    /\ Serial(1, 2).db # Serial(2, 1).db

\* The states a read may be computed from: the store when no transaction is
\* in flight, else the state before the transaction and the one after it.
CompleteStates ==
    IF InFlight = {} THEN {Store}
    ELSE UNION {{procs[p].undo, execInTx(procs[p].undo, procs[p].bb, procs[p].fail).db} :
                   p \in InFlight}

ReadOf(db) ==
    CASE res.op = "FilterEvents" -> FilterEventsResult(db.event, res.filter)
      [] res.op = "FilterTransfers" -> FilterTransfersResult(db.transfer, res.filter)
      [] res.op = "QueryLastBlockNumber" -> LastBlockNumber(db.config)

ReadResult == IF res.op = "QueryLastBlockNumber" THEN res.val ELSE res.out

ReadFromCompleteState == \E db \in CompleteStates : ReadResult = ReadOf(db)

CanonicalEventRows(from, upto) ==
    UNION {BatchEventRows(FullBatch(Header(h, 0))) : h \in from..upto}
CanonicalTransferRows(from, upto) ==
    UNION {BatchTransferRows(FullBatch(Header(h, 0))) : h \in from..upto}

RowsFrom(table, number) == {row \in table : row.blockNumber >= number}

\* C19: once the canonical batches of the heights H..M have been committed
\* in order, for any H from 0 on and on any store, the stored events and
\* transfers with block number >= H are exactly the records of those
\* batches.
C19_ReplayLeavesCanonicalRecords ==
    replayed # <<>> =>
      /\ RowsFrom(eventTable, replayed[1]) = CanonicalEventRows(replayed[1], replayed[2])
      /\ RowsFrom(transferTable, replayed[1]) =
            CanonicalTransferRows(replayed[1], replayed[2])

\* C19, amended: the same for every H >= 1.  A replay from H = 0 stores the
\* canonical genesis records and, once it has reached a height M >= 1,
\* leaves the records with block number >= 1 equal to those of the
\* canonical batches 1..M; the genesis commit itself truncates nothing.
C19_ReplayAboveGenesisLeavesCanonicalRecords ==
    replayed # <<>> =>
      LET H == replayed[1]
          M == replayed[2]
      IN /\ H >= 1 =>
               /\ RowsFrom(eventTable, H) = CanonicalEventRows(H, M)
               /\ RowsFrom(transferTable, H) = CanonicalTransferRows(H, M)
         /\ H = 0 =>
               /\ CanonicalEventRows(0, 0) \subseteq eventTable
               /\ CanonicalTransferRows(0, 0) \subseteq transferTable
               /\ M >= 1 =>
                     /\ RowsFrom(eventTable, 1) = CanonicalEventRows(1, M)
                     /\ RowsFrom(transferTable, 1) = CanonicalTransferRows(1, M)

\* The commit of the canonical block 1 started a replay on a store that held
\* records of the other branch at the heights 1 and 2.
C19_Witness ==
    /\ CommitSucceeded
    /\ replayed = <<1, 1>>
    /\ \A h \in 1..2 : \E row \in res.pre.event : row.blockNumber = h /\ row.blockID[2] = 1
    /\ \A row \in eventTable : row.blockNumber >= 1 => row.blockID[2] = 0

\* ----------------------------------------------------------- claims: Close
\* C20: every call made after Close has returned fails and changes nothing:
\* FilterEvents and FilterTransfers return an error and no records,
\* QueryLastBlockNumber returns an error, Commit returns an error and the
\* store is as before the call.  (Close replaces the record of the last
\* call, so a call recorded in a closed state was made after Close.)
C20_ClosedStoreFailsEveryCall ==
    closed =>
      /\ res.op \in {"FilterEvents", "FilterTransfers"} => (res.err /\ res.out = <<>>)
      /\ res.op = "QueryLastBlockNumber" => res.err
      /\ res.op = "Commit" => (res.err /\ Store = res.pre)

\* After Close, a batch with records was committed on a store holding
\* records: Commit returned an error.
C20_Witness ==
    /\ closed
    /\ CommitReturned
    /\ res.bb.events # <<>>
    /\ res.bb.header.number > 0
    /\ eventTable # {}
    /\ res.err

\* ------------------------------------------- holding the one connection
\* A Commit call as a goroutine makes it, on a complete batch for header.
CommitCallOf(header, fail) ==
    [pc |-> "begin", bb |-> FullBatch(header), fail |-> fail, k |-> 1,
     undo |-> Store, start |-> Store, err |-> FALSE]

\* An unfiltered FilterEvents / FilterTransfers call under a context and a
\* fault of the backing store; n is the number of rows of the open result
\* set, k the row the loop is at.
FilterCallOf(op, ctx, fault) ==
    [pc |-> "query", op |-> op, ctx |-> ctx, fault |-> fault, n |-> 0, k |-> 1,
     err |-> FALSE, kind |-> "none"]

\* Two goroutines call the store at the same time, each a Commit or a filter.
Call(c1, c2) ==
    /\ AllIdle
    /\ ~closed
    /\ res.op \in {"New", "Commit"}
    /\ procs' = [p \in Writers |-> IF p = 1 THEN c1 ELSE c2]
    /\ res' = [op |-> "Call"]
    /\ UNCHANGED <<eventTable, transferTable, config, batches,
                   inserted, lastCommitted, closed, conn, replayed>>

\* tx, err := bb.db.Begin() returns an error: execInTx returns it, no
\* transaction was started and no connection is kept.
BeginFails(p) ==
    /\ procs[p].pc = "begin"
    /\ procs[p].fail.at = "begin"
    /\ procs' = [procs EXCEPT ![p].pc = "done", ![p].err = TRUE]
    /\ res' = [op |-> "Commit", err |-> TRUE, fail |-> procs[p].fail, bb |-> procs[p].bb,
               pre |-> Store]
    /\ UNCHANGED <<eventTable, transferTable, config, batches,
                   inserted, lastCommitted, closed, conn, replayed>>

\* The records the statement of an unfiltered call selects, and how many
\* they are: the statement has no WHERE and no LIMIT.
ReadRecords(op) ==
    IF op = "FilterEvents" THEN FilterEventsResult(eventTable, Nil)
    ELSE FilterTransfersResult(transferTable, Nil)
RowCount(op) ==
    IF op = "FilterEvents" THEN Cardinality(eventTable) ELSE Cardinality(transferTable)

\* The filter call returns r; the connection is not touched here.
FilterReturns(p, r) ==
    /\ procs' = [procs EXCEPT ![p].pc = "done", ![p].err = r.err, ![p].kind = r.kind]
    /\ res' = [op |-> procs[p].op, p |-> p, ctx |-> procs[p].ctx, fault |-> procs[p].fault,
               err |-> r.err, kind |-> r.kind]
    /\ UNCHANGED <<eventTable, transferTable, config, batches,
                   inserted, lastCommitted, closed, replayed>>

\* rows, err := db.db.QueryContext(ctx, stmt, args...) returns an error: the
\* context is done already or the store fails the query; no rows are open.
QueryContextFails(p) ==
    /\ procs[p].pc = "query"
    /\ procs[p].ctx.at = "call" \/ procs[p].fault.at = "query"
    /\ FilterReturns(p, Failed(IF procs[p].ctx.at = "call" THEN "context" ELSE "storage"))
    /\ UNCHANGED conn

\* QueryContext succeeds once the pool has a connection to give; the open
\* rows keep the connection.
QueryContext(p) ==
    /\ procs[p].pc = "query"
    /\ ~(procs[p].ctx.at = "call" \/ procs[p].fault.at = "query")
    /\ CanOpenConn(conn)
    /\ conn' = conn \cup {p}
    /\ procs' = [procs EXCEPT ![p].pc = "rows", ![p].n = RowCount(procs[p].op)]
    /\ res' = [op |-> "QueryContext", p |-> p]
    /\ UNCHANGED <<eventTable, transferTable, config, batches,
                   inserted, lastCommitted, closed, replayed>>

\* defer rows.Close(): runs on every return after QueryContext succeeded and
\* gives the connection back to the pool.
RowsCloseKeepingConn(holders, p) == holders
RowsClose(holders, p) == holders \ {p}

\* What the loop does at row w.k of the open rows: it ends (rows.Err set or
\* not), returns the context's error, returns the error of Scan, or appends
\* the record and goes on.  The records themselves are left out here.
RowsOutcome(w) ==
    IF w.k > w.n \/ (w.fault.at = "rows" /\ w.fault.k < w.k)
    THEN IF w.fault.at = "rows" THEN Failed("storage")
         ELSE Returned(<<>>)
    ELSE IF CtxDone(w.ctx, w.k) THEN Failed("context")
    ELSE IF w.fault.at = "scan" /\ w.fault.k = w.k THEN Failed("storage")
    ELSE [out |-> <<>>, err |-> FALSE, kind |-> "next"]

\* One turn of for rows.Next() { check ctx; Scan; append }.
RowsNext(p) ==
    /\ procs[p].pc = "rows"
    /\ RowsOutcome(procs[p]).kind = "next"
    /\ procs' = [procs EXCEPT ![p].k = procs[p].k + 1]
    /\ res' = [op |-> "RowsNext", p |-> p]
    /\ UNCHANGED <<eventTable, transferTable, config, batches, inserted,
                   lastCommitted, closed, conn, replayed>>

\* A return out of the loop or after it; the deferred rows.Close() runs.
RowsReturn(p) ==
    /\ procs[p].pc = "rows"
    /\ RowsOutcome(procs[p]).kind # "next"
    /\ FilterReturns(p, RowsOutcome(procs[p]))
    /\ conn' = RowsClose(conn, p)

\* The calls the two goroutines make: commits that succeed, fail at Begin, at
\* a checked statement, at the marker write or at tx.Commit; filters that
\* succeed, find the context done at the call or after the first row, or
\* meet a failing query, row or iteration.
CommitCalls ==
    {CommitCallOf(header, fail) :
        header \in FrameHeaders, fail \in WriterFailurePoints \cup TxFailurePoints}
FilterCalls ==
    {FilterCallOf(op, cf[1], cf[2]) :
        op \in {"FilterEvents"},
        cf \in { <<Background, NoFault>>, <<CancelledAtCall, NoFault>>,
                 <<CancelledAfter(1), NoFault>>, <<Background, QueryFault>>,
                 <<Background, ScanFault(1)>>, <<Background, RowsFault(1)>> }}
    \cup {FilterCallOf("FilterTransfers", Background, NoFault)}

\* What one goroutine does next in its call.
CallStep(p) ==
    \/ BeginFails(p)
    \/ procs[p].pc = "begin" /\ procs[p].fail.at # "begin" /\ Begin(p)
    \/ Exec(p)
    \/ EndTx(p)
    \/ QueryContextFails(p)
    \/ QueryContext(p)
    \/ RowsNext(p)
    \/ RowsReturn(p)

\* The pipeline indexes the canonical chain; then two calls run concurrently.
NextRelease ==
    \/ AllIdle /\ \E header \in FrameHeaders : PipelinePrepare(header)
    \/ AllIdle /\ Insert
    \/ AllIdle /\ PipelineCommit
    \/ \E c1 \in CommitCalls, c2 \in CommitCalls \cup FilterCalls : Call(c1, c2)
    \/ \E c1, c2 \in FilterCalls : Call(c1, c2)
    \/ \E p \in Writers : CallStep(p)

\* Every goroutine in a call is scheduled again and again, and a statement
\* the store was handed returns.
SpecRelease ==
    Init /\ [][NextRelease]_vars /\ \A p \in Writers : WF_vars(CallStep(p))

\* ---------------------------------------------------- claims: frame effect
\* C21: only Commit changes the persisted state.  Every other call leaves
\* both tables and the marker as they are; Prepare keeps the batches already
\* held as they are, Insert changes the batch it is called on and no other,
\* and a read changes no batch and returns what the store alone gives, so
\* records held by a batch that was not committed are in no read.
C21_OnlyCommitChangesTheStore ==
    [][ /\ res'.op # "Commit" => Store' = Store
        /\ res'.op = "Prepare" => SubSeq(batches', 1, Len(batches)) = batches
        /\ res'.op = "Insert" =>
              /\ Len(batches') = Len(batches)
              /\ \A b \in 1..Len(batches) : b # res'.b => batches'[b] = batches[b]
        /\ res'.op \in ReadOps => batches' = batches
        /\ res'.op = "FilterEvents" => res'.out = FilterEventsResult(eventTable, Nil)
        /\ res'.op = "FilterTransfers" => res'.out = FilterTransfersResult(transferTable, Nil)
        /\ res'.op = "QueryLastBlockNumber" => res'.val = LastBlockNumber(config) ]_vars

\* Of two batches with events, the first was committed and the second not:
\* the read returned the events of the first only.
C21_Witness ==
    /\ res.op = "FilterEvents"
    /\ Len(batches) = 2
    /\ batches[1].events # <<>>
    /\ batches[2].events # <<>>
    /\ batches[1].events # batches[2].events
    /\ res.out = batches[1].events

\* ------------------------------------------------------ claims: invariants
\* C22: in every state reached by commits, successful or failed, at any
\* height, every stored event and every stored transfer has a block number
\* not above the value QueryLastBlockNumber returns.
C22_MarkerCoversRecords ==
    \A row \in eventTable \cup transferTable :
        row.blockNumber <= LastBlockNumber(config)

\* ------------------------------------------------- claims: termination
InCall(p) == procs[p].pc \in {"begin", "tx", "query", "rows"}

\* The last call to return was a Commit: it returned nil with the store as
\* the closure's statements left it, or an error with the store as it was
\* when the transaction began.
CommittedOrRolledBack ==
    res.op = "Commit" =>
        IF res.err THEN Store = res.pre
        ELSE Store = CommitProc(res.pre, res.bb, 1,
                                IF res.fail.at = "statement" THEN res.fail.k ELSE 0).db

\* The open rows of a filter call are as many as the records its statement
\* selects, and a filter call that returned did so as queryEvents /
\* queryTransfers does on those records.
RowsAreTheSelectedRecords ==
    /\ \A p \in Writers : procs[p].pc = "rows" => procs[p].n = Len(ReadRecords(procs[p].op))
    /\ res.op \in {"FilterEvents", "FilterTransfers"} =>
          LET r == QueryOutcome(ReadRecords(res.op), res.ctx, res.fault)
          IN res.err = r.err /\ res.kind = r.kind

\* C23: every started Commit finishes, committed or rolled back, and every
\* started filter call returns, the one that had to wait for the connection
\* included; a call that has returned, on whichever path, holds no
\* connection.
C23_CallsFinishAndReleaseTheConnection ==
    /\ (\E p \in Writers : InCall(p)) ~> AllDone
    /\ [](\A p \in Writers : procs[p].pc = "done" => p \notin conn)
    /\ []CommittedOrRolledBack
    /\ []RowsAreTheSelectedRecords

\* A Commit rolled back at a checked statement and a filter call cancelled
\* after its first row have both returned, and the connection is free.
C23_Witness ==
    /\ procs[1].pc = "done"
    /\ procs[2].pc = "done"
    /\ "fail" \in DOMAIN procs[1]
    /\ "ctx" \in DOMAIN procs[2]
    /\ procs[1].fail = [at |-> "statement", k |-> 2]
    /\ procs[1].err
    /\ procs[2].ctx = CancelledAfter(1)
    /\ procs[2].kind = "context"
    /\ procs[2].k = 2
    /\ conn = {}

====
